---- MODULE Spec2Model ----
(***************************************************************************)
(* A model of succinct::vector<T> (src/succinct_vector.hpp) and of the     *)
(* draft container space<T> (src/space.hpp): a resizable array kept as a   *)
(* directory of equally sized buffers, rebuilt alternately by directory    *)
(* and by buffers.                                                         *)
(*                                                                         *)
(* The heap is explicit.  Every `new` takes the lowest free address, every *)
(* `delete[]` returns it.  A directory is a heap object whose cells hold   *)
(* buffer addresses, a buffer is a heap object whose cells hold items.     *)
(* A cell that was never written holds UNINIT.  An operation is a function *)
(* from a world (objects, heap, per-call counters) to a world; a failed    *)
(* assert or an invalid memory access stops the call where it happens.     *)
(***************************************************************************)
EXTENDS Integers, Sequences, FiniteSets, TLC

\* ------------------------------------------------------------------ bounds

\* Largest size() a run may reach.  64 is the first size at which the
\* directory has 8 slots and the buffers 16 items, so that downsize_buffers
\* later splits real buffers.
MaxSize == 64

\* Largest size() in the two-object runs (copy construction, assignment).
MaxCopySize == 5

\* Number of heap addresses.
MaxAddr == 22

\* Largest number of operations counted in the amortised-cost runs.
MaxOps == 130

\* Largest size of the vector in the runs with counters of scaled width.
MaxScaledSize == 4100

\* The widths of the runs with counters of scaled width: length_t has
\* ScaledLenBits bits and the bit-field log_buffer_capacity ScaledLogBits =
\* log2(ScaledLenBits) bits, for 32 and 5 in the source; size_t has twice
\* ScaledLenBits bits.
ScaledLenBits == 8
ScaledLogBits == 3

\* ------------------------------------------------------- program constants

\* log_buffer_capacity is a 5 bit field.
LogBits == 5

\* The value of a cell that `new T[n]` / `new T*[n]` left unwritten.
UNINIT == -1

\* The null pointer.
NULL == 0

Addr == 1..MaxAddr

\* Items pushed by the runs: a plain item (0) and a marked one (1).  The container
\* never inspects an item, so following one marked item among plain ones
\* follows any item.
Values == {0, 1}

Marked(x) == x # 0

Objs == {"a", "b", "s"}

\* ------------------------------------------------------------------- state

VARIABLES
  vec,      \* the fields of each object: vector a, vector b, space s
  mem,      \* the heap
  ref,      \* per object, the plain reference sequence of its items
  outcome,  \* "ok", or how the program ended: "assert", "ub"
  op,       \* a summary of the last call (successful reads leave no trace)
  run,      \* length of the current strictly alternating push/pop run (<= 3)
  nops,     \* number of push_back/pop_back calls so far (amortised runs)
  ncopies,  \* number of items copied by buffer rebuilds so far
  rt,       \* the round trip in progress (round trip runs)
  last,     \* the last two rebuilds that ran, oldest first (rebuild runs)
  cnt       \* the counters of a vector with narrow length_t (scaled runs)

vars == <<vec, mem, ref, outcome, op, run, nops, ncopies, rt, last, cnt>>

\* ------------------------------------------------------------------- heap

Dead == [live |-> FALSE, kind |-> "none", cells |-> <<>>]

NoVec == [dir |-> NULL, dir_size |-> 0, last_buffer_size |-> 0,
          log_buffer_capacity |-> 0, big_buffer |-> FALSE, extra_buffer |-> FALSE]

Halted(w) == w.fail \/ w.ub \/ w.oom

\* assert (c)
Chk(w, c) == IF Halted(w) \/ c THEN w ELSE [w EXCEPT !.fail = TRUE]

FreeAddrs(m) == {p \in Addr : ~m[p].live}

NewAddr(m) ==
  IF FreeAddrs(m) = {} THEN NULL
  ELSE CHOOSE p \in FreeAddrs(m) : \A q \in FreeAddrs(m) : p <= q

\* p = new T[n] (kind "buf") or new T*[n] (kind "dir"), p == NewAddr(w.mem)
New(w, p, n, kind) ==
  IF Halted(w) THEN w
  ELSE IF p = NULL THEN [w EXCEPT !.oom = TRUE]
  ELSE [w EXCEPT !.mem[p] = [live |-> TRUE, kind |-> kind,
                             cells |-> [i \in 1..n |-> UNINIT]],
                 !.nalloc = IF kind = "buf" THEN @ + 1 ELSE @]

Valid(m, p, i) == p \in Addr /\ m[p].live /\ i >= 0 /\ i < Len(m[p].cells)

\* delete[] p.  Every pointer to the freed object becomes an invalid pointer
\* value: the directory cells and dir fields that held p hold UNINIT afterwards.
Delete(w, p) ==
  IF Halted(w) THEN w
  ELSE IF p \in Addr /\ w.mem[p].live
       THEN [w EXCEPT
               !.mem = [q \in Addr |->
                          IF q = p THEN Dead
                          ELSE IF @[q].live /\ @[q].kind = "dir"
                               THEN [@[q] EXCEPT !.cells =
                                       [j \in 1..Len(@) |->
                                          IF @[j] = p THEN UNINIT ELSE @[j]]]
                               ELSE @[q]],
               !.vec = [o \in Objs |->
                          IF @[o].dir = p THEN [@[o] EXCEPT !.dir = UNINIT] ELSE @[o]],
               !.nfree = IF w.mem[p].kind = "buf" THEN @ + 1 ELSE @]
       ELSE [w EXCEPT !.ub = TRUE]

\* the value of p[i]
Load(m, p, i) == IF Valid(m, p, i) THEN m[p].cells[i + 1] ELSE UNINIT

\* the access p[i] itself: invalid when p is not a live object or i is outside it
Acc(w, p, i) ==
  IF Halted(w) \/ Valid(w.mem, p, i) THEN w ELSE [w EXCEPT !.ub = TRUE]

\* p[i] = x
Store(w, p, i, x) ==
  IF Halted(w) THEN w
  ELSE IF Valid(w.mem, p, i)
       THEN [w EXCEPT !.mem[p].cells[i + 1] = x]
       ELSE [w EXCEPT !.ub = TRUE]

\* std::copy(src + s0, src + s0 + n, dst + d0)
Copy(w, src, s0, n, dst, d0) ==
  IF Halted(w) \/ n <= 0 THEN w
  ELSE IF /\ Valid(w.mem, src, s0) /\ Valid(w.mem, src, s0 + n - 1)
          /\ Valid(w.mem, dst, d0) /\ Valid(w.mem, dst, d0 + n - 1)
       THEN [w EXCEPT !.mem[dst].cells =
                        [j \in 1..Len(@) |->
                           IF j > d0 /\ j <= d0 + n
                           THEN w.mem[src].cells[j - d0 + s0]
                           ELSE @[j]],
                      !.ncopy = IF w.mem[dst].kind = "buf" THEN @ + n ELSE @]
       ELSE [w EXCEPT !.ub = TRUE]

\* ------------------------------------------------------------ vector fields

Pow2(e) == IF e >= 0 /\ e < 31 THEN 2 ^ e ELSE 0

dir_capacity(v) ==
  Pow2(v.log_buffer_capacity - (IF v.big_buffer THEN 1 ELSE 0))

buffer_capacity(v) == Pow2(v.log_buffer_capacity)

size(v) == (v.dir_size - 1) * Pow2(v.log_buffer_capacity) + v.last_buffer_size

Ext(v) == IF v.extra_buffer THEN 1 ELSE 0

\* *this = v
SetV(w, o, v) == IF Halted(w) THEN w ELSE [w EXCEPT !.vec[o] = v]

\* this->f = x
SetF(w, o, f, x) == IF Halted(w) THEN w ELSE [w EXCEPT !.vec[o][f] = x]

Note(w, name) == IF Halted(w) THEN w ELSE [w EXCEPT !.rebuilds = Append(@, name)]

\* the value of dir[i]
DirAt(w, o, i) == Load(w.mem, w.vec[o].dir, i)

\* the access dir[i]
AccDir(w, o, i) == Acc(w, w.vec[o].dir, i)

\* dir[i] = new T[n]
NewBufAt(w, o, i, n) ==
  Store(New(w, NewAddr(w.mem), n, "buf"), w.vec[o].dir, i, NewAddr(w.mem))

\* delete[] dir[i]
DeleteAt(w, o, i) == Delete(AccDir(w, o, i), DirAt(w, o, i))

assert_valid(w, o) ==
  LET v == w.vec[o] IN
  Chk(w, /\ v.dir # NULL
         /\ 0 < v.log_buffer_capacity
         /\ v.dir_size <= dir_capacity(v)
         /\ v.dir_size > 0
         /\ v.last_buffer_size < buffer_capacity(v)
         /\ (v.last_buffer_size = 0 => ~v.extra_buffer)
         /\ (v.extra_buffer => 0 < v.last_buffer_size /\ v.dir_size < dir_capacity(v))
         /\ (v.dir_size + Ext(v)) * 4 >= dir_capacity(v))

\* ------------------------------------------------------- vector: rebuilds

\* dir = new T*[n]; std::copy(old_dir, old_dir + ncopy, dir); delete[] old_dir;
\* big_buffer = big
rebuild_dir(w, o, old_dir, p, n, ncopy, big) ==
  SetF(Delete(Copy(SetF(New(w, p, n, "dir"), o, "dir", p), old_dir, 0, ncopy, p, 0),
              old_dir),
       o, "big_buffer", big)

\* Mutant of upsize_dir: the new directory is as long as the old one.
upsize_dir_same(w, o) ==
  Note(rebuild_dir(Chk(w, w.vec[o].big_buffer), o, w.vec[o].dir, NewAddr(w.mem),
                   dir_capacity(w.vec[o]), dir_capacity(w.vec[o]), FALSE),
       "upsize_dir")

\* increase the dir_capacity
upsize_dir(w, o) ==
  Note(rebuild_dir(Chk(w, w.vec[o].big_buffer), o, w.vec[o].dir, NewAddr(w.mem),
                   2 * dir_capacity(w.vec[o]), dir_capacity(w.vec[o]), FALSE),
       "upsize_dir")

\* decrease the dir_capacity
downsize_dir(w, o) ==
  Note(rebuild_dir(w, o, w.vec[o].dir, NewAddr(w.mem),
                   dir_capacity(w.vec[o]) \div 2, w.vec[o].dir_size, TRUE),
       "downsize_dir")

\* Mutant of merge_body: the two halves of the merged buffer are exchanged.
merge_body_swapped(w, o, i, buf_cap, buf1, buf2, bigdir) ==
  Delete(Delete(Copy(Copy(Store(New(w, bigdir, 2 * buf_cap, "buf"),
                                w.vec[o].dir, i \div 2, bigdir),
                          buf1, 0, buf_cap, bigdir, buf_cap),
                     buf2, 0, buf_cap, bigdir, 0),
                buf1),
         buf2)

\* Mutant of merge_body: the last item of the second buffer is not copied.
merge_body_short(w, o, i, buf_cap, buf1, buf2, bigdir) ==
  Delete(Delete(Copy(Copy(Store(New(w, bigdir, 2 * buf_cap, "buf"),
                                w.vec[o].dir, i \div 2, bigdir),
                          buf1, 0, buf_cap, bigdir, 0),
                     buf2, 0, buf_cap - 1, bigdir, buf_cap),
                buf1),
         buf2)

\* The body of the merge loop of upsize_buffers once buf1, buf2 are read and the
\* address of bigdir is known.
merge_body(w, o, i, buf_cap, buf1, buf2, bigdir) ==
  Delete(Delete(Copy(Copy(Store(New(w, bigdir, 2 * buf_cap, "buf"),
                                w.vec[o].dir, i \div 2, bigdir),
                          buf1, 0, buf_cap, bigdir, 0),
                     buf2, 0, buf_cap, bigdir, buf_cap),
                buf1),
         buf2)

\* Mutant of merge_pair: the pair is merged, and the merge is then done again.
merge_pair_twice(w, o, i, buf_cap) ==
  Copy(Copy(merge_body(AccDir(AccDir(w, o, i), o, i + 1), o, i, buf_cap,
                       DirAt(w, o, i), DirAt(w, o, i + 1), NewAddr(w.mem)),
            NewAddr(w.mem), 0, buf_cap, NewAddr(w.mem), 0),
       NewAddr(w.mem), buf_cap, buf_cap, NewAddr(w.mem), buf_cap)

\* One iteration of the merge loop of upsize_buffers: the pair dir[i], dir[i+1].
merge_pair(w, o, i, buf_cap) ==
  merge_body(AccDir(AccDir(w, o, i), o, i + 1), o, i, buf_cap,
             DirAt(w, o, i), DirAt(w, o, i + 1), NewAddr(w.mem))

RECURSIVE merge_loop(_, _, _, _)
merge_loop(w, o, i, buf_cap) ==
  IF Halted(w) \/ ~(i < w.vec[o].dir_size) THEN w
  ELSE merge_loop(merge_pair(w, o, i, buf_cap), o, i + 2, buf_cap)

\* The asserts at the head of upsize_buffers.  assert (dir_size = dir_capacity())
\* is an assignment, then a test of the value assigned.
upsize_buffers_asserts(w, o) ==
  LET v == w.vec[o] IN
  Chk(Chk(Chk(SetF(Chk(Chk(w, ~v.big_buffer), ~v.extra_buffer),
                   o, "dir_size", dir_capacity(v)),
              dir_capacity(v) # 0),
          dir_capacity(v) % 2 = 0),
      v.last_buffer_size = buffer_capacity(v))

\* Mutant of upsize_buffers_fields: dir_size is not halved.
upsize_buffers_fields_nohalve(w, o) ==
  IF Halted(w) THEN w
  ELSE [w EXCEPT !.vec[o] =
          [@ EXCEPT !.log_buffer_capacity = (@ + 1) % (2 ^ LogBits),
                    !.last_buffer_size = @ * 2,
                    !.big_buffer = TRUE]]

\* The field updates at the end of upsize_buffers.
upsize_buffers_fields(w, o) ==
  IF Halted(w) THEN w
  ELSE [w EXCEPT !.vec[o] =
          [@ EXCEPT !.log_buffer_capacity = (@ + 1) % (2 ^ LogBits),
                    !.last_buffer_size = @ * 2,
                    !.big_buffer = TRUE,
                    !.dir_size = @ \div 2]]

\* increase the buffer_capacity
upsize_buffers(w, o) ==
  Note(upsize_buffers_fields(
         merge_loop(upsize_buffers_asserts(w, o), o, 0, buffer_capacity(w.vec[o])), o),
       "upsize_buffers")

\* The two std::copy calls of the split loop, into dir[2k] and dir[2k+1].
split_copy(w, o, k, buf_cap, oldbuf) ==
  Copy(Copy(w, oldbuf, 0, buf_cap \div 2, DirAt(w, o, 2 * k), 0),
       oldbuf, buf_cap \div 2, buf_cap \div 2, DirAt(w, o, 2 * k + 1), 0)

\* The body of the split loop of downsize_buffers once oldbuf is read.
split_body(w, o, k, buf_cap, oldbuf) ==
  Delete(split_copy(NewBufAt(NewBufAt(w, o, 2 * k, buf_cap \div 2),
                             o, 2 * k + 1, buf_cap \div 2),
                    o, k, buf_cap, oldbuf),
         oldbuf)

\* One iteration of the split loop of downsize_buffers: buffer dir[k].
split_one(w, o, k, buf_cap) ==
  split_body(AccDir(Chk(w, k < w.vec[o].dir_size - 1), o, k), o, k, buf_cap,
             DirAt(w, o, k))

RECURSIVE split_loop(_, _, _, _)
split_loop(w, o, i, buf_cap) ==
  IF Halted(w) \/ ~(i < w.vec[o].dir_size) THEN w
  ELSE split_loop(split_one(w, o, w.vec[o].dir_size - i - 1, buf_cap),
                  o, i + 1, buf_cap)

downsize_buffers_asserts(w, o) ==
  LET v == w.vec[o] IN
  Chk(Chk(Chk(Chk(Chk(w, 0 = v.last_buffer_size), ~v.extra_buffer),
              buffer_capacity(v) % 2 = 0),
          v.dir_size * 2 < dir_capacity(v)),
      v.big_buffer)

\* The field updates at the end of downsize_buffers.
downsize_buffers_fields(w, o) ==
  IF Halted(w) THEN w
  ELSE [w EXCEPT !.vec[o] =
          [@ EXCEPT !.big_buffer = FALSE,
                    !.log_buffer_capacity = (@ - 1) % (2 ^ LogBits),
                    !.dir_size = 2 * @ - 1]]

\* dir[dir_size-1] = new T[buffer_capacity()]; assert (0 == last_buffer_size)
downsize_buffers_last(w, o) ==
  Chk(NewBufAt(w, o, w.vec[o].dir_size - 1, buffer_capacity(w.vec[o])),
      0 = w.vec[o].last_buffer_size)

\* decrease the buffer_capacity
downsize_buffers(w, o) ==
  Note(downsize_buffers_last(
         downsize_buffers_fields(
           split_loop(DeleteAt(downsize_buffers_asserts(w, o), o, w.vec[o].dir_size - 1),
                      o, 1, buffer_capacity(w.vec[o])),
           o),
         o),
       "downsize_buffers")

\* assert (size() == old_size)
same_size(w, o, old_size) == Chk(w, size(w.vec[o]) = old_size)

\* Mutant of upsize: the two rebuilds are exchanged.
upsize_flipped(w, o) ==
  same_size(IF w.vec[o].big_buffer THEN upsize_buffers(w, o) ELSE upsize_dir(w, o),
            o, size(w.vec[o]))

upsize(w, o) ==
  same_size(IF w.vec[o].big_buffer THEN upsize_dir(w, o) ELSE upsize_buffers(w, o),
            o, size(w.vec[o]))

\* Mutant of downsize: nothing is rebuilt.
downsize_skip(w, o) == w

\* Mutant of downsize: the two rebuilds are exchanged.
downsize_flipped(w, o) ==
  same_size(IF w.vec[o].big_buffer THEN downsize_dir(w, o) ELSE downsize_buffers(w, o),
            o, size(w.vec[o]))

downsize(w, o) ==
  same_size(IF w.vec[o].big_buffer THEN downsize_buffers(w, o) ELSE downsize_dir(w, o),
            o, size(w.vec[o]))

\* ------------------------------------------------- vector: public operations

\* The member initialisers of vector::vector(), d the address of new T*[1].
construct_fields(w, o, d) ==
  IF Halted(w) THEN w
  ELSE [w EXCEPT !.vec[o] = [dir |-> d, dir_size |-> 1, last_buffer_size |-> 0,
                             log_buffer_capacity |-> 1, big_buffer |-> TRUE,
                             extra_buffer |-> FALSE]]

\* The body of vector::vector()
construct_body(w, o) == assert_valid(NewBufAt(w, o, 0, buffer_capacity(w.vec[o])), o)

\* vector::vector()
construct_default(w, o) ==
  construct_body(construct_fields(New(w, NewAddr(w.mem), 1, "dir"), o, NewAddr(w.mem)),
                 o)

\* assert (dir_size < dir_capacity()); dir[dir_size] = new T[buffer_capacity()]
push_alloc(w, o) ==
  NewBufAt(Chk(w, w.vec[o].dir_size < dir_capacity(w.vec[o])),
           o, w.vec[o].dir_size, buffer_capacity(w.vec[o]))

\* ++dir_size; extra_buffer = false; last_buffer_size = 0
push_promote(w, o) ==
  IF Halted(w) THEN w
  ELSE [w EXCEPT !.vec[o] = [@ EXCEPT !.dir_size = @ + 1,
                                      !.extra_buffer = FALSE,
                                      !.last_buffer_size = 0]]

\* The full-buffer branch of push_back (last_buffer_size == buffer_capacity()).
push_full(w, o) ==
  push_promote(
    IF w.vec[o].extra_buffer THEN w
    ELSE push_alloc(IF w.vec[o].dir_size = dir_capacity(w.vec[o])
                    THEN upsize(w, o) ELSE w,
                    o),
    o)

\* assert_valid(); assert (last_buffer_size < buffer_capacity())
push_entry(w, o) ==
  Chk(assert_valid(w, o), w.vec[o].last_buffer_size < buffer_capacity(w.vec[o]))

\* dir[dir_size-1][last_buffer_size] = x; ++last_buffer_size
push_store(w, o, x) ==
  SetF(Store(AccDir(w, o, w.vec[o].dir_size - 1), DirAt(w, o, w.vec[o].dir_size - 1),
             w.vec[o].last_buffer_size, x),
       o, "last_buffer_size", w.vec[o].last_buffer_size + 1)

push_branch(w, o) ==
  IF ~Halted(w) /\ w.vec[o].last_buffer_size = buffer_capacity(w.vec[o])
  THEN push_full(w, o) ELSE w

\* push_back up to the test of the full last buffer
push_to_branch(w, o, x) == push_store(push_entry(w, o), o, x)

\* The conditions under which push_back calls upsize: the last buffer is full,
\* there is no extra buffer and the directory is full.
push_upsizes(w, o) ==
  /\ ~Halted(w)
  /\ w.vec[o].last_buffer_size = buffer_capacity(w.vec[o])
  /\ ~w.vec[o].extra_buffer
  /\ w.vec[o].dir_size = dir_capacity(w.vec[o])

\* assert_valid(); assert (size() == old_size + 1)
push_exit(w, o, old_size) == Chk(assert_valid(w, o), size(w.vec[o]) = old_size + 1)

push_back(w, o, x) ==
  push_exit(push_branch(push_store(push_entry(w, o), o, x), o), o, size(w.vec[o]))

\* Mutant of pop_entry: the precondition is not checked.
pop_entry_unchecked(w, o) == assert_valid(w, o)

\* assert_valid(); assert (size() > 0)
pop_entry(w, o) == Chk(assert_valid(w, o), size(w.vec[o]) > 0)

\* Mutant of pop_retire: the vacated buffer is freed, not kept as the extra buffer.
pop_retire_free(w, o) ==
  SetF(SetF(DeleteAt(w, o, w.vec[o].dir_size - 1),
            o, "last_buffer_size", buffer_capacity(w.vec[o]) - 1),
       o, "dir_size", w.vec[o].dir_size - 1)

\* Mutant of pop_retire: the retired buffer counts as full.
pop_retire_full(w, o) ==
  IF Halted(w) THEN w
  ELSE [w EXCEPT !.vec[o] =
          [@ EXCEPT !.last_buffer_size = buffer_capacity(w.vec[o]),
                    !.dir_size = @ - 1,
                    !.extra_buffer = TRUE]]

\* Mutant of pop_retire: the vacated buffer is not recorded as the extra buffer.
pop_retire_noextra(w, o) ==
  IF Halted(w) THEN w
  ELSE [w EXCEPT !.vec[o] =
          [@ EXCEPT !.last_buffer_size = buffer_capacity(w.vec[o]) - 1,
                    !.dir_size = @ - 1]]

\* The last buffer becomes the extra buffer.
pop_retire(w, o) ==
  IF Halted(w) THEN w
  ELSE [w EXCEPT !.vec[o] =
          [@ EXCEPT !.last_buffer_size = buffer_capacity(w.vec[o]) - 1,
                    !.dir_size = @ - 1,
                    !.extra_buffer = TRUE]]

\* Mutant of pop_free_extra: the extra buffer is forgotten, not freed.
pop_free_extra_leak(w, o) ==
  IF ~Halted(w) /\ 0 = w.vec[o].last_buffer_size /\ w.vec[o].extra_buffer
  THEN SetF(w, o, "extra_buffer", FALSE)
  ELSE w

\* delete[] dir[dir_size]; extra_buffer = false, when the last buffer is now empty
pop_free_extra(w, o) ==
  IF ~Halted(w) /\ 0 = w.vec[o].last_buffer_size /\ w.vec[o].extra_buffer
  THEN SetF(DeleteAt(w, o, w.vec[o].dir_size), o, "extra_buffer", FALSE)
  ELSE w

\* The counter updates of pop_back.
pop_counters(w, o) ==
  IF Halted(w) THEN w
  ELSE IF 0 = w.vec[o].last_buffer_size
       THEN pop_retire(Chk(w, ~w.vec[o].extra_buffer), o)
       ELSE pop_free_extra(
              SetF(w, o, "last_buffer_size", w.vec[o].last_buffer_size - 1), o)

\* Mutant of pop_trigger: the trigger is the strict inequality.
pop_trigger_strict(w, o) ==
  IF ~Halted(w) /\ (w.vec[o].dir_size + Ext(w.vec[o])) * 4 < dir_capacity(w.vec[o])
  THEN downsize(Chk(w, (w.vec[o].dir_size + Ext(w.vec[o])) * 4
                         = dir_capacity(w.vec[o])),
                o)
  ELSE w

\* Mutant of pop_trigger: the extra buffer is not counted.
pop_trigger_noextra(w, o) ==
  IF ~Halted(w) /\ w.vec[o].dir_size * 4 <= dir_capacity(w.vec[o])
  THEN downsize(Chk(w, w.vec[o].dir_size * 4 = dir_capacity(w.vec[o])), o)
  ELSE w

\* The downsize trigger of pop_back.
pop_trigger(w, o) ==
  IF ~Halted(w) /\ (w.vec[o].dir_size + Ext(w.vec[o])) * 4 <= dir_capacity(w.vec[o])
  THEN downsize(Chk(w, (w.vec[o].dir_size + Ext(w.vec[o])) * 4
                         = dir_capacity(w.vec[o])),
                o)
  ELSE w

\* pop_back up to the point where it evaluates its downsize trigger
pop_to_trigger(w, o) == pop_counters(pop_entry(w, o), o)

\* (dir_size + (extra_buffer ? 1 : 0)) * 4 <= dir_capacity()
pop_trigger_fires(w, o) ==
  ~Halted(w) /\ (w.vec[o].dir_size + Ext(w.vec[o])) * 4 <= dir_capacity(w.vec[o])

\* assert_valid(); assert (size() + 1 == old_size)
pop_exit(w, o, old_size) == Chk(assert_valid(w, o), size(w.vec[o]) + 1 = old_size)

pop_back(w, o) ==
  pop_exit(pop_trigger(pop_counters(pop_entry(w, o), o), o), o, size(w.vec[o]))

\* The directory index and the offset pget computes for i.
pget_big(v, i) == i \div Pow2(v.log_buffer_capacity)

pget_little(v, i) == i % buffer_capacity(v)

\* The asserts of pget.
pget_asserts(w, o, i) ==
  LET v == w.vec[o] IN
  Chk(Chk(Chk(Chk(assert_valid(w, o), i < size(v)),
              pget_big(v, i) * Pow2(v.log_buffer_capacity) + pget_little(v, i) = i),
          pget_big(v, i) < v.dir_size),
      pget_little(v, i) < buffer_capacity(v))

\* The buffer dir[big] that pget dereferences.
pget_buf(m, v, i) == Load(m, v.dir, pget_big(v, i))

\* pget as a call: its asserts, then the access dir[big][little]
pget_chk(w, o, i) ==
  Acc(AccDir(pget_asserts(w, o, i), o, pget_big(w.vec[o], i)),
      pget_buf(w.mem, w.vec[o], i), pget_little(w.vec[o], i))

\* the value of operator[](i)
pget(m, v, i) == Load(m, pget_buf(m, v, i), pget_little(v, i))

\* the items operator[] shows, as a sequence
Items(m, v) == [i \in 1..size(v) |-> pget(m, v, i - 1)]

\* ----------------------------------------- vector: counters of scaled width

LenMod == 2 ^ ScaledLenBits

\* The counters of a vector, without its heap; n is the number of items it
\* would hold, wraps the computations of the last call whose value did not
\* fit, fail whether an assert of the call failed.
scaled_construct ==
  [dir_size |-> 1, last_buffer_size |-> 0, log_buffer_capacity |-> 1,
   big_buffer |-> TRUE, extra_buffer |-> FALSE, n |-> 0, wraps |-> {}, fail |-> FALSE]

\* assert
ScaledChk(c, cond) == IF c.fail \/ cond THEN c ELSE [c EXCEPT !.fail = TRUE]

\* The value x of the computation `what` is reduced modulo 2^bits by the
\* machine; the call notes it if that changes the value.
Fit(c, what, x, bits) ==
  IF c.fail \/ x \in 0..(2 ^ bits - 1) THEN c ELSE [c EXCEPT !.wraps = @ \cup {what}]

\* c with field f set to x modulo 2^bits
ScaledSet(c, f, what, x, bits) ==
  IF c.fail THEN c ELSE [Fit(c, what, x, bits) EXCEPT ![f] = x % (2 ^ bits)]

\* dir_capacity(), where its assert (log_buffer_capacity > 0) holds
scaled_dir_capacity(c) ==
  2 ^ (c.log_buffer_capacity - (IF c.big_buffer THEN 1 ELSE 0))

scaled_buffer_capacity(c) == 2 ^ c.log_buffer_capacity

\* size(), computed in size_t
scaled_size(c) ==
  ((c.dir_size - 1) * 2 ^ c.log_buffer_capacity + c.last_buffer_size)
    % (2 ^ (2 * ScaledLenBits))

scaled_assert_valid(c) ==
  ScaledChk(
    Fit(ScaledChk(ScaledChk(ScaledChk(ScaledChk(ScaledChk(ScaledChk(c,
            0 < c.log_buffer_capacity),
            c.dir_size <= scaled_dir_capacity(c)),
            c.dir_size > 0),
            c.last_buffer_size < scaled_buffer_capacity(c)),
            c.last_buffer_size = 0 => ~c.extra_buffer),
            c.extra_buffer => (0 < c.last_buffer_size
                               /\ c.dir_size < scaled_dir_capacity(c))),
        "(dir_size + extra_buffer) * 4", (c.dir_size + Ext(c)) * 4, ScaledLenBits),
    ((c.dir_size + Ext(c)) * 4) % LenMod >= scaled_dir_capacity(c))

\* upsize_buffers: the asserts, new T[2 * buf_cap], and the field updates
scaled_upsize_buffers(c) ==
  [ScaledSet(
     ScaledSet(
       Fit(ScaledChk(ScaledChk(ScaledChk(ScaledChk(c, ~c.big_buffer), ~c.extra_buffer),
                               scaled_dir_capacity(c) % 2 = 0),
                     c.last_buffer_size = scaled_buffer_capacity(c)),
           "2 * buf_cap", 2 * scaled_buffer_capacity(c), ScaledLenBits),
       "log_buffer_capacity", "++log_buffer_capacity",
       c.log_buffer_capacity + 1, ScaledLogBits),
     "last_buffer_size", "last_buffer_size *= 2", c.last_buffer_size * 2, ScaledLenBits)
   EXCEPT !.big_buffer = TRUE, !.dir_size = scaled_dir_capacity(c) \div 2]

\* upsize: upsize_dir (new T*[2 * old_dir_capacity]) or upsize_buffers, and
\* assert (size() == old_size)
scaled_upsize(c) ==
  LET r == IF c.big_buffer
           THEN [Fit(c, "2 * old_dir_capacity", 2 * scaled_dir_capacity(c),
                     ScaledLenBits) EXCEPT !.big_buffer = FALSE]
           ELSE scaled_upsize_buffers(c)
  IN ScaledChk(r, scaled_size(r) = scaled_size(c))

\* downsize_buffers: the asserts and the field updates
scaled_downsize_buffers(c) ==
  [ScaledSet(
     ScaledSet(
       ScaledChk(ScaledChk(
         Fit(ScaledChk(ScaledChk(ScaledChk(c, 0 = c.last_buffer_size), ~c.extra_buffer),
                       scaled_buffer_capacity(c) % 2 = 0),
             "dir_size * 2", c.dir_size * 2, ScaledLenBits),
         (c.dir_size * 2) % LenMod < scaled_dir_capacity(c)), c.big_buffer),
       "log_buffer_capacity", "--log_buffer_capacity",
       c.log_buffer_capacity - 1, ScaledLogBits),
     "dir_size", "2 * dir_size - 1", 2 * c.dir_size - 1, ScaledLenBits)
   EXCEPT !.big_buffer = FALSE]

\* downsize: downsize_buffers or downsize_dir, and assert (size() == old_size)
scaled_downsize(c) ==
  LET r == IF c.big_buffer THEN scaled_downsize_buffers(c)
           ELSE [c EXCEPT !.big_buffer = TRUE]
  IN ScaledChk(r, scaled_size(r) = scaled_size(c))

\* The full-buffer branch of push_back.
scaled_push_branch(c) ==
  IF c.fail \/ c.last_buffer_size # scaled_buffer_capacity(c) THEN c
  ELSE LET u == IF ~c.extra_buffer /\ c.dir_size = scaled_dir_capacity(c)
                THEN scaled_upsize(c) ELSE c
           r == IF c.extra_buffer THEN c
                ELSE ScaledChk(ScaledChk(u, 0 < u.log_buffer_capacity),
                               u.dir_size < scaled_dir_capacity(u))
       IN [ScaledSet(r, "dir_size", "++dir_size", r.dir_size + 1, ScaledLenBits)
           EXCEPT !.extra_buffer = FALSE, !.last_buffer_size = 0]

\* push_back, on the counters
scaled_push_back(c) ==
  LET r == scaled_assert_valid(
             scaled_push_branch(
               ScaledSet(ScaledChk(scaled_assert_valid([c EXCEPT !.wraps = {}]),
                                   c.last_buffer_size < scaled_buffer_capacity(c)),
                         "last_buffer_size", "++last_buffer_size",
                         c.last_buffer_size + 1, ScaledLenBits)))
  IN [ScaledChk(r, scaled_size(r) = (scaled_size(c) + 1) % (2 ^ (2 * ScaledLenBits)))
      EXCEPT !.n = c.n + 1]

\* The counter updates of pop_back.
scaled_pop_counters(c) ==
  IF c.fail THEN c
  ELSE IF 0 = c.last_buffer_size
  THEN [ScaledSet(ScaledSet(ScaledChk(c, ~c.extra_buffer),
                            "last_buffer_size", "buffer_capacity() - 1",
                            scaled_buffer_capacity(c) - 1, ScaledLenBits),
                  "dir_size", "--dir_size", c.dir_size - 1, ScaledLenBits)
        EXCEPT !.extra_buffer = TRUE]
  ELSE [c EXCEPT !.last_buffer_size = @ - 1,
                 !.extra_buffer = @ /\ c.last_buffer_size # 1]

\* The downsize trigger of pop_back.
scaled_pop_trigger(c) ==
  IF c.fail THEN c
  ELSE LET r == Fit(ScaledChk(c, 0 < c.log_buffer_capacity),
                    "(dir_size + extra_buffer) * 4", (c.dir_size + Ext(c)) * 4,
                    ScaledLenBits)
       IN IF ~r.fail /\ ((c.dir_size + Ext(c)) * 4) % LenMod <= scaled_dir_capacity(c)
          THEN scaled_downsize(
                 ScaledChk(r, ((c.dir_size + Ext(c)) * 4) % LenMod
                                = scaled_dir_capacity(c)))
          ELSE r

\* pop_back, on the counters
scaled_pop_back(c) ==
  LET r == scaled_assert_valid(
             scaled_pop_trigger(
               scaled_pop_counters(
                 ScaledChk(scaled_assert_valid([c EXCEPT !.wraps = {}]),
                           scaled_size(c) > 0))))
  IN [ScaledChk(r, (scaled_size(r) + 1) % (2 ^ (2 * ScaledLenBits)) = scaled_size(c))
      EXCEPT !.n = c.n - 1]

\* --------------------------------------------- vector: copies and destruction

\* std::copy(that.dir[i], that.dir[i] + that.buffer_capacity(), dir[i])
construct_copy(w, o, t, i) ==
  Copy(AccDir(AccDir(w, t, i), o, i), DirAt(w, t, i), 0,
       buffer_capacity(w.vec[t]), DirAt(w, o, i), 0)

\* Mutant of construct_one: the buffer of that is shared, not copied.
construct_one_shallow(w, o, t, i) ==
  Store(AccDir(w, t, i), w.vec[o].dir, i, DirAt(w, t, i))

\* One iteration of the loop of construct.
construct_one(w, o, t, i) ==
  construct_copy(NewBufAt(w, o, i, buffer_capacity(w.vec[o])), o, t, i)

RECURSIVE construct_loop(_, _, _, _)
construct_loop(w, o, t, i) ==
  IF Halted(w) \/ ~(i < w.vec[o].dir_size) THEN w
  ELSE construct_loop(construct_one(w, o, t, i), o, t, i + 1)

\* if (extra_buffer) dir[dir_size] = new T[buffer_capacity()]; assert_valid()
construct_extra(w, o) ==
  assert_valid(IF ~Halted(w) /\ w.vec[o].extra_buffer
               THEN NewBufAt(w, o, w.vec[o].dir_size, buffer_capacity(w.vec[o]))
               ELSE w,
               o)

\* construct(that)
construct(w, o, t) == construct_extra(construct_loop(assert_valid(w, o), o, t, 0), o)

\* dir = d, and every other field that of that
copy_fields(w, o, t, d) ==
  IF Halted(w) THEN w ELSE [w EXCEPT !.vec[o] = [w.vec[t] EXCEPT !.dir = d]]

\* dir(new T*[that.dir_capacity()]) and the other member initialisers
copy_members(w, o, t) ==
  copy_fields(New(w, NewAddr(w.mem), dir_capacity(w.vec[t]), "dir"), o, t,
              NewAddr(w.mem))

\* vector::vector(const vector & that)
copy_construct(w, o, t) == construct(copy_members(w, o, t), o, t)

RECURSIVE destuct_loop(_, _, _)
destuct_loop(w, o, i) ==
  IF Halted(w) \/ ~(i < w.vec[o].dir_size) THEN w
  ELSE destuct_loop(DeleteAt(w, o, i), o, i + 1)

\* Mutant of destuct_rest: the extra buffer is not freed.
destuct_rest_noextra(w, o) == Delete(w, w.vec[o].dir)

\* if (extra_buffer) delete[] dir[dir_size]; delete[] dir
destuct_rest(w, o) ==
  Delete(IF ~Halted(w) /\ w.vec[o].extra_buffer
         THEN DeleteAt(w, o, w.vec[o].dir_size) ELSE w,
         w.vec[o].dir)

\* destuct()
destuct(w, o) == destuct_rest(destuct_loop(w, o, 0), o)

\* vector::operator=(const vector & that)
assign(w, o, t) == construct(copy_members(destuct(w, o), o, t), o, t)

\* ------------------------------------------------------------------ space<T>

\* space::valid(): the asserts of assert_valid but the last one
space_valid(w, o) ==
  LET v == w.vec[o] IN
  Chk(w, /\ v.dir # NULL
         /\ 0 < v.log_buffer_capacity
         /\ v.dir_size <= dir_capacity(v)
         /\ v.dir_size > 0
         /\ (v.last_buffer_size = 0 => ~v.extra_buffer)
         /\ v.last_buffer_size < buffer_capacity(v)
         /\ (v.extra_buffer => 0 < v.last_buffer_size /\ v.dir_size < dir_capacity(v)))

\* The member initialisers of space::space(), d the address of new T*[1].
space_fields(w, o, d) ==
  IF Halted(w) THEN w
  ELSE [w EXCEPT !.vec[o] = [dir |-> d, dir_size |-> 1, last_buffer_size |-> 0,
                             log_buffer_capacity |-> 1, big_buffer |-> TRUE,
                             extra_buffer |-> FALSE]]

\* The body of space::space()
space_body(w, o) == space_valid(NewBufAt(w, o, 0, buffer_capacity(w.vec[o])), o)

\* space::space()
space_construct(w, o) ==
  space_body(space_fields(New(w, NewAddr(w.mem), 1, "dir"), o, NewAddr(w.mem)), o)

space_upsize_dir(w, o) ==
  Note(rebuild_dir(w, o, w.vec[o].dir, NewAddr(w.mem),
                   2 * dir_capacity(w.vec[o]), dir_capacity(w.vec[o]), FALSE),
       "upsize_dir")

space_downsize_dir(w, o) ==
  Note(rebuild_dir(w, o, w.vec[o].dir, NewAddr(w.mem),
                   dir_capacity(w.vec[o]) \div 2, w.vec[o].dir_size, TRUE),
       "downsize_dir")

\* The merge loop of space::upsize_buffers, the loop of vector::upsize_buffers.
RECURSIVE space_merge_loop(_, _, _, _)
space_merge_loop(w, o, i, buf_cap) ==
  IF Halted(w) \/ ~(i < w.vec[o].dir_size) THEN w
  ELSE space_merge_loop(
         merge_body(AccDir(AccDir(w, o, i), o, i + 1), o, i, buf_cap,
                    DirAt(w, o, i), DirAt(w, o, i + 1), NewAddr(w.mem)),
         o, i + 2, buf_cap)

\* The field updates at the end of space::upsize_buffers.
space_upsize_buffers_fields(w, o) ==
  IF Halted(w) THEN w
  ELSE [w EXCEPT !.vec[o] =
          [@ EXCEPT !.log_buffer_capacity = (@ + 1) % (2 ^ LogBits),
                    !.last_buffer_size = @ * 2,
                    !.big_buffer = TRUE,
                    !.dir_size = @ \div 2]]

space_upsize_buffers(w, o) ==
  Note(space_upsize_buffers_fields(
         space_merge_loop(w, o, 0, buffer_capacity(w.vec[o])), o),
       "upsize_buffers")

\* Mutant of space_split_loop: the loop starts at i = 1, as the loop of
\* vector::downsize_buffers does, and leaves the last buffer unsplit.
RECURSIVE space_split_loop_from_one(_, _, _, _)
space_split_loop_from_one(w, o, i, buf_cap) ==
  IF Halted(w) \/ ~(i < w.vec[o].dir_size) THEN w
  ELSE IF i = 0 THEN space_split_loop_from_one(w, o, 1, buf_cap)
  ELSE space_split_loop_from_one(
         split_body(AccDir(w, o, w.vec[o].dir_size - i - 1), o,
                    w.vec[o].dir_size - i - 1, buf_cap,
                    DirAt(w, o, w.vec[o].dir_size - i - 1)),
         o, i + 1, buf_cap)

\* The split loop of space::downsize_buffers: every buffer, the last one too.
RECURSIVE space_split_loop(_, _, _, _)
space_split_loop(w, o, i, buf_cap) ==
  IF Halted(w) \/ ~(i < w.vec[o].dir_size) THEN w
  ELSE space_split_loop(
         split_body(AccDir(w, o, w.vec[o].dir_size - i - 1), o,
                    w.vec[o].dir_size - i - 1, buf_cap,
                    DirAt(w, o, w.vec[o].dir_size - i - 1)),
         o, i + 1, buf_cap)

\* Mutant of space_downsize_buffers_fields: dir_size is doubled, not 2*dir_size - 1.
space_downsize_buffers_fields_double(w, o) ==
  IF Halted(w) THEN w
  ELSE [w EXCEPT !.vec[o] =
          [@ EXCEPT !.log_buffer_capacity = (@ - 1) % (2 ^ LogBits),
                    !.big_buffer = FALSE,
                    !.dir_size = 2 * @]]

\* The field updates at the end of space::downsize_buffers.
space_downsize_buffers_fields(w, o) ==
  IF Halted(w) THEN w
  ELSE [w EXCEPT !.vec[o] =
          [@ EXCEPT !.log_buffer_capacity = (@ - 1) % (2 ^ LogBits),
                    !.big_buffer = FALSE,
                    !.dir_size = 2 * @ - 1]]

\* delete[] dir[dir_size], the second half of the old last buffer
space_downsize_buffers_last(w, o) == DeleteAt(w, o, w.vec[o].dir_size)

space_downsize_buffers(w, o) ==
  Note(space_downsize_buffers_last(
         space_downsize_buffers_fields(
           space_split_loop(
             Chk(Chk(w, 0 = w.vec[o].last_buffer_size), ~w.vec[o].extra_buffer),
             o, 0, buffer_capacity(w.vec[o])),
           o),
         o),
       "downsize_buffers")

space_upsize(w, o) ==
  same_size(IF w.vec[o].big_buffer THEN space_upsize_dir(w, o)
            ELSE space_upsize_buffers(w, o),
            o, size(w.vec[o]))

space_downsize(w, o) ==
  same_size(IF w.vec[o].big_buffer THEN space_downsize_buffers(w, o)
            ELSE space_downsize_dir(w, o),
            o, size(w.vec[o]))

\* dir[dir_size] = new T[buffer_capacity()]
space_push_alloc(w, o) ==
  NewBufAt(w, o, w.vec[o].dir_size, buffer_capacity(w.vec[o]))

\* The full-buffer branch of space::push_back.
space_push_full(w, o) ==
  push_promote(
    IF w.vec[o].extra_buffer THEN w
    ELSE space_push_alloc(IF w.vec[o].dir_size = dir_capacity(w.vec[o])
                          THEN space_upsize(w, o) ELSE w,
                          o),
    o)

space_push_branch(w, o) ==
  IF ~Halted(w) /\ w.vec[o].last_buffer_size = buffer_capacity(w.vec[o])
  THEN space_push_full(w, o) ELSE w

\* assert (valid()); assert (size() == old_size + 1)
space_push_exit(w, o, old_size) ==
  Chk(space_valid(w, o), size(w.vec[o]) = old_size + 1)

space_push_back(w, o, x) ==
  space_push_exit(space_push_branch(push_store(space_valid(w, o), o, x), o),
                  o, size(w.vec[o]))

\* The downsize trigger of space::pop_back.
space_pop_trigger(w, o) ==
  IF ~Halted(w) /\ w.vec[o].dir_size * 4 <= dir_capacity(w.vec[o])
  THEN space_downsize(Chk(w, w.vec[o].dir_size * 4 = dir_capacity(w.vec[o])), o)
  ELSE w

\* delete[] dir[dir_size]; extra_buffer = false; and the downsize trigger,
\* which space evaluates only here and without the extra_buffer term
space_pop_free_extra(w, o) ==
  IF ~Halted(w) /\ 0 = w.vec[o].last_buffer_size /\ w.vec[o].extra_buffer
  THEN space_pop_trigger(SetF(DeleteAt(w, o, w.vec[o].dir_size),
                              o, "extra_buffer", FALSE), o)
  ELSE w

\* The counter updates of space::pop_back.
space_pop_counters(w, o) ==
  IF Halted(w) THEN w
  ELSE IF 0 = w.vec[o].last_buffer_size
       THEN pop_retire(Chk(w, ~w.vec[o].extra_buffer), o)
       ELSE space_pop_free_extra(
              SetF(w, o, "last_buffer_size", w.vec[o].last_buffer_size - 1), o)

\* assert (valid()); assert (size() + 1 == old_size)
space_pop_exit(w, o, old_size) ==
  Chk(space_valid(w, o), size(w.vec[o]) + 1 = old_size)

space_pop_back(w, o) ==
  space_pop_exit(space_pop_counters(Chk(space_valid(w, o), size(w.vec[o]) > 0), o),
                 o, size(w.vec[o]))

\* The asserts of space::get.
space_get_asserts(w, o, i) ==
  LET v == w.vec[o] IN
  Chk(Chk(Chk(Chk(space_valid(w, o), i < size(v)),
              pget_big(v, i) * Pow2(v.log_buffer_capacity) + pget_little(v, i) = i),
          pget_big(v, i) < v.dir_size),
      pget_little(v, i) < buffer_capacity(v))

\* space::get as a call: its asserts, then the access dir[big][little]
space_get_chk(w, o, i) ==
  Acc(AccDir(space_get_asserts(w, o, i), o, pget_big(w.vec[o], i)),
      pget_buf(w.mem, w.vec[o], i), pget_little(w.vec[o], i))

\* the value of space::get(i)
space_get(m, v, i) == Load(m, Load(m, v.dir, pget_big(v, i)), pget_little(v, i))

\* ---------------------------------------------------- addresses up to renaming

\* Which address `new` returns is the allocator's choice, so two heaps that
\* differ by a renaming of addresses are the same program state.  Between
\* calls the heap is kept in one representative of its class: the live objects
\* numbered in the order the objects reach them (directory, then its buffers
\* in directory order), unreachable live objects after them.

RECURSIVE Dedup(_, _)
Dedup(q, acc) ==
  IF q = <<>> THEN acc
  ELSE Dedup(Tail(q),
             IF \E k \in 1..Len(acc) : acc[k] = Head(q) THEN acc ELSE Append(acc, Head(q)))

RECURSIVE Ascending(_)
Ascending(S) ==
  IF S = {} THEN <<>>
  ELSE LET lo == CHOOSE p \in S : \A q \in S : p <= q
       IN <<lo>> \o Ascending(S \ {lo})

ReachOf(m, v) ==
  IF v.dir \in Addr /\ m[v.dir].live
  THEN <<v.dir>> \o SelectSeq(m[v.dir].cells, LAMBDA c : c \in Addr)
  ELSE <<>>

Order(w) ==
  LET r == Dedup(ReachOf(w.mem, w.vec["a"]) \o ReachOf(w.mem, w.vec["b"])
                 \o ReachOf(w.mem, w.vec["s"]), <<>>)
      rest == {p \in Addr : w.mem[p].live} \ {r[k] : k \in 1..Len(r)}
  IN r \o Ascending(rest)

Canon(w) ==
  LET ord == Order(w)
      pi(p) == IF p \in Addr /\ \E k \in 1..Len(ord) : ord[k] = p
               THEN CHOOSE k \in 1..Len(ord) : ord[k] = p
               ELSE p
      obj(k) == LET x == w.mem[ord[k]] IN
                IF x.kind = "dir"
                THEN [x EXCEPT !.cells = [j \in 1..Len(@) |-> pi(@[j])]]
                ELSE x
  IN [w EXCEPT !.mem = [k \in Addr |-> IF k <= Len(ord) THEN obj(k) ELSE Dead],
               !.vec = [o \in Objs |-> [@[o] EXCEPT !.dir = pi(@)]]]

\* ------------------------------------------------------------ state machine

\* The world a call starts in.
W0 == [vec |-> vec, mem |-> mem, fail |-> FALSE, ub |-> FALSE, oom |-> FALSE,
       nalloc |-> 0, nfree |-> 0, ncopy |-> 0, rebuilds |-> <<>>]

\* The world before any object is constructed.
Empty == [vec |-> [o \in Objs |-> NoVec], mem |-> [p \in Addr |-> Dead],
          fail |-> FALSE, ub |-> FALSE, oom |-> FALSE,
          nalloc |-> 0, nfree |-> 0, ncopy |-> 0, rebuilds |-> <<>>]

\* The last call: its name, object and argument, and what it did to the heap.
Summary(w, name, o, arg) ==
  [name |-> name, obj |-> o, arg |-> arg, nalloc |-> w.nalloc, nfree |-> w.nfree,
   ncopy |-> w.ncopy, rebuilds |-> w.rebuilds]

Outcome(w) == IF w.fail THEN "assert" ELSE IF w.ub THEN "ub" ELSE "ok"

\* What a call leaves behind.  A call in which an allocation fails is not
\* followed: bad_alloc is outside the model.
Commit(w, name, o, arg) ==
  /\ ~w.oom
  /\ vec' = Canon(w).vec
  /\ mem' = Canon(w).mem
  /\ outcome' = Outcome(w)
  /\ op' = Summary(w, name, o, arg)

\* Some buffer of object o holds a marked item, counted or stale (a cell never
\* written holds no item).
MarkIn(o) ==
  /\ vec[o].dir \in Addr
  /\ \E k \in 1..Len(mem[vec[o].dir].cells) :
       LET p == mem[vec[o].dir].cells[k] IN
       /\ p \in Addr
       /\ \E j \in 1..Len(mem[p].cells) :
            mem[p].cells[j] \in Values /\ Marked(mem[p].cells[j])

\* The runs follow one marked item per object at a time.
MayPush(o, x) == Marked(x) => ~MarkIn(o)

hist == <<run, nops, ncopies, rt, last, cnt>>

InitWith(w, o) ==
  /\ vec = Canon(w).vec
  /\ mem = Canon(w).mem
  /\ ref = [q \in Objs |-> <<>>]
  /\ outcome = "ok"
  /\ op = Summary(w, "construct", o, 0)
  /\ run = 0
  /\ nops = 0
  /\ ncopies = 0
  /\ rt = [phase |-> "idle", saved |-> <<>>]
  /\ last = <<>>
  /\ cnt = scaled_construct

Init == InitWith(construct_default(Empty, "a"), "a")

\* a.push_back(x)
PushBack(o, x) ==
  /\ outcome = "ok"
  /\ size(vec[o]) < MaxSize
  /\ LET w == push_back(W0, o, x) IN
       /\ Commit(w, "push_back", o, x)
       /\ ref' = IF Halted(w) THEN ref ELSE [ref EXCEPT ![o] = Append(@, x)]

\* a.pop_back(), also on the empty vector
PopBack(o) ==
  /\ outcome = "ok"
  /\ LET w == pop_back(W0, o) IN
       /\ Commit(w, "pop_back", o, 0)
       /\ ref' = IF Halted(w) THEN ref
                 ELSE [ref EXCEPT ![o] = SubSeq(@, 1, Len(@) - 1)]

\* The indices the runs access: the last item, and the first two past the end.
Probe(o) == {i \in {size(vec[o]) - 1, size(vec[o]), size(vec[o]) + 1} : i >= 0}

\* a[i] read
At(o, i) ==
  /\ outcome = "ok"
  /\ LET w == pget_chk(W0, o, i) IN
       IF Halted(w) \/ i >= size(vec[o])
       THEN Commit(w, "at", o, i) /\ ref' = ref
       ELSE UNCHANGED <<vec, mem, ref, outcome, op>>

\* a[i] = x
SetAt(o, i, x) ==
  /\ outcome = "ok"
  /\ MayPush(o, x)
  /\ LET w == Store(pget_chk(W0, o, i), pget_buf(mem, vec[o], i),
                    pget_little(vec[o], i), x)
     IN /\ Commit(w, "set", o, i)
        /\ ref' = IF Halted(w) THEN ref ELSE [ref EXCEPT ![o][i + 1] = x]

Next ==
  \/ \E x \in Values : MayPush("a", x) /\ PushBack("a", x) /\ UNCHANGED hist
  \/ PopBack("a") /\ UNCHANGED hist
  \/ \E i \in Probe("a") : At("a", i) /\ UNCHANGED hist

Spec == Init /\ [][Next]_vars

\* --------------------------------------------- alternating runs (thrashing)

\* The length of the strictly alternating push/pop run that the call `name`
\* extends or starts, counted up to 3.
RunStep(name) ==
  run' = IF op.name \in {"push_back", "pop_back"} /\ op.name # name
         THEN (IF run < 3 THEN run + 1 ELSE 3)
         ELSE 1

NextAlt ==
  \/ PushBack("a", 0) /\ RunStep("push_back") /\ UNCHANGED <<nops, ncopies, rt, last, cnt>>
  \/ PopBack("a") /\ RunStep("pop_back") /\ UNCHANGED <<nops, ncopies, rt, last, cnt>>

SpecAlt == Init /\ [][NextAlt]_vars

\* ----------------------------------------------------------- amortised cost

\* The call counted: one more operation, op'.ncopy more items copied.
Count ==
  /\ nops < MaxOps
  /\ nops' = nops + 1
  /\ ncopies' = ncopies + op'.ncopy

NextAmort ==
  \/ PushBack("a", 0) /\ Count /\ UNCHANGED <<run, rt, last, cnt>>
  \/ PopBack("a") /\ Count /\ UNCHANGED <<run, rt, last, cnt>>

SpecAmort == Init /\ [][NextAmort]_vars

\* ------------------------------------------------------- the test of space<T>

InitSpace == InitWith(space_construct(Empty, "s"), "s")

\* foo.push_back(k) at size k: the test pushes each index as its own item,
\* also when it pushes popped items back
SpacePush ==
  /\ outcome = "ok"
  /\ size(vec["s"]) < MaxSize
  /\ LET w == space_push_back(W0, "s", size(vec["s"])) IN
       /\ Commit(w, "push_back", "s", size(vec["s"]))
       /\ ref' = IF Halted(w) THEN ref
                 ELSE [ref EXCEPT !["s"] = Append(@, size(vec["s"]))]

\* foo.pop_back()
SpacePop ==
  /\ outcome = "ok"
  /\ LET w == space_pop_back(W0, "s") IN
       /\ Commit(w, "pop_back", "s", 0)
       /\ ref' = IF Halted(w) THEN ref
                 ELSE [ref EXCEPT !["s"] = SubSeq(@, 1, Len(@) - 1)]

\* foo.get(i)
SpaceGet(i) ==
  /\ outcome = "ok"
  /\ LET w == space_get_chk(W0, "s", i) IN
       IF Halted(w) \/ i >= size(vec["s"])
       THEN Commit(w, "at", "s", i) /\ ref' = ref
       ELSE UNCHANGED <<vec, mem, ref, outcome, op>>

NextSpace ==
  \/ SpacePush /\ UNCHANGED hist
  \/ SpacePop /\ UNCHANGED hist
  \/ \E i \in Probe("s") : SpaceGet(i) /\ UNCHANGED hist

SpecSpace == InitSpace /\ [][NextSpace]_vars

\* ------------------------------------------------------------- round trips

\* a.push_back(k) at size k, outside a round trip
TripFill ==
  /\ rt.phase = "idle"
  /\ PushBack("a", size(vec["a"]))
  /\ UNCHANGED <<run, nops, ncopies, rt, last, cnt>>

\* a.pop_back(), outside a round trip
TripDrain ==
  /\ rt.phase = "idle"
  /\ size(vec["a"]) > 0
  /\ PopBack("a")
  /\ UNCHANGED <<run, nops, ncopies, rt, last, cnt>>

\* A round trip starts: the items operator[] shows now are noted.
TripBegin ==
  /\ outcome = "ok"
  /\ rt.phase = "idle"
  /\ size(vec["a"]) > 0
  /\ rt' = [phase |-> "pop", saved |-> Items(mem, vec["a"])]
  /\ UNCHANGED <<vec, mem, ref, outcome, op, run, nops, ncopies, last, cnt>>

\* One of the k pops of the round trip.
TripPop ==
  /\ rt.phase = "pop"
  /\ size(vec["a"]) > 0
  /\ PopBack("a")
  /\ UNCHANGED <<run, nops, ncopies, rt, last, cnt>>

\* One of the k pushes of the round trip: the item noted for this index.
TripPush ==
  /\ rt.phase \in {"pop", "push"}
  /\ size(vec["a"]) < Len(rt.saved)
  /\ PushBack("a", rt.saved[size(vec["a"]) + 1])
  /\ rt' = [rt EXCEPT !.phase = IF size(vec["a"]) + 1 = Len(rt.saved) THEN "done" ELSE "push"]
  /\ UNCHANGED <<run, nops, ncopies, last, cnt>>

\* The round trip is over.
TripEnd ==
  /\ rt.phase = "done"
  /\ rt' = [phase |-> "idle", saved |-> <<>>]
  /\ UNCHANGED <<vec, mem, ref, outcome, op, run, nops, ncopies, last, cnt>>

NextTrip ==
  \/ TripFill
  \/ TripDrain
  \/ TripBegin
  \/ TripPop
  \/ TripPush
  \/ TripEnd

SpecTrip == Init /\ [][NextTrip]_vars

\* -------------------------------------------------------------- two vectors

Built(o) == vec[o].dir # NULL

\* vector b;
ConstructB ==
  /\ outcome = "ok"
  /\ ~Built("b")
  /\ LET w == construct_default(W0, "b") IN
       /\ Commit(w, "construct", "b", 0)
       /\ ref' = [ref EXCEPT !["b"] = <<>>]

\* vector b(a);
CopyConstruct ==
  /\ outcome = "ok"
  /\ ~Built("b")
  /\ LET w == copy_construct(W0, "b", "a") IN
       /\ Commit(w, "copy", "b", "a")
       /\ ref' = IF Halted(w) THEN ref ELSE [ref EXCEPT !["b"] = ref["a"]]

\* o = t; for two different vectors
Assign(o, t) ==
  /\ outcome = "ok"
  /\ o # t
  /\ Built(o)
  /\ Built(t)
  /\ LET w == assign(W0, o, t) IN
       /\ Commit(w, "assign", o, t)
       /\ ref' = IF Halted(w) THEN ref ELSE [ref EXCEPT ![o] = ref[t]]

\* b goes out of scope
DestroyB ==
  /\ outcome = "ok"
  /\ Built("b")
  /\ LET w == SetV(destuct(W0, "b"), "b", NoVec) IN
       /\ Commit(w, "destroy", "b", 0)
       /\ ref' = IF Halted(w) THEN ref ELSE [ref EXCEPT !["b"] = <<>>]

NextCopy ==
  \/ ConstructB /\ UNCHANGED hist
  \/ CopyConstruct /\ UNCHANGED hist
  \/ \E o, t \in {"a", "b"} : Assign(o, t) /\ UNCHANGED hist
  \/ DestroyB /\ UNCHANGED hist
  \/ \E o \in {"a", "b"}, x \in Values :
       /\ Built(o)
       /\ size(vec[o]) < MaxCopySize
       /\ MayPush(o, x)
       /\ PushBack(o, x)
       /\ UNCHANGED hist
  \/ \E o \in {"a", "b"} : Built(o) /\ size(vec[o]) > 0 /\ PopBack(o) /\ UNCHANGED hist
  \/ \E o \in {"a", "b"}, x \in Values :
       /\ Built(o)
       /\ size(vec[o]) > 0
       /\ MayPush(o, x)
       /\ SetAt(o, size(vec[o]) - 1, x)
       /\ UNCHANGED hist

SpecCopy == Init /\ [][NextCopy]_vars

\* ------------------------------------------------------------- destruction

\* o goes out of scope
Destroy(o) ==
  /\ outcome = "ok"
  /\ Built(o)
  /\ LET w == SetV(destuct(W0, o), o, NoVec) IN
       /\ Commit(w, "destroy", o, 0)
       /\ ref' = IF Halted(w) THEN ref ELSE [ref EXCEPT ![o] = <<>>]

NextOwn ==
  \/ Built("a") /\ PushBack("a", 0) /\ UNCHANGED hist
  \/ Built("a") /\ PopBack("a") /\ UNCHANGED hist
  \/ Destroy("a") /\ UNCHANGED hist

SpecOwn == Init /\ [][NextOwn]_vars

\* ------------------------------------------------------- rebuild histories

\* The rebuild the call ran, if any, is appended to the last two rebuilds.
Track ==
  last' = IF op'.rebuilds = <<>> THEN last
          ELSE IF last = <<>> THEN op'.rebuilds
          ELSE <<last[Len(last)]>> \o op'.rebuilds

NextRebuild ==
  \/ PushBack("a", 0) /\ Track /\ UNCHANGED <<run, nops, ncopies, rt, cnt>>
  \/ PopBack("a") /\ Track /\ UNCHANGED <<run, nops, ncopies, rt, cnt>>

SpecRebuild == Init /\ [][NextRebuild]_vars

\* ---------------------------------------------------------- self-assignment

\* The items i, i+1, ... of o take the values f gives them: what is read from
\* an item of a new T[n] that was never written.
RECURSIVE Indeterminate(_, _, _, _)
Indeterminate(w, o, f, i) ==
  IF Halted(w) \/ ~(i < size(w.vec[o])) THEN w
  ELSE Indeterminate(Store(w, pget_buf(w.mem, w.vec[o], i), pget_little(w.vec[o], i),
                           f[i]),
                     o, f, i + 1)

\* a = a; the items of the new buffers, which std::copy copied onto
\* themselves, hold any values
SelfAssign ==
  /\ outcome = "ok"
  /\ \E f \in [0..(size(vec["a"]) - 1) -> Values] :
       LET w == Indeterminate(assign(W0, "a", "a"), "a", f, 0) IN
       /\ Commit(w, "self_assign", "a", "a")
       /\ ref' = ref

NextSelf ==
  \/ \E x \in Values : size(vec["a"]) < MaxCopySize /\ PushBack("a", x) /\ UNCHANGED hist
  \/ size(vec["a"]) > 0 /\ PopBack("a") /\ UNCHANGED hist
  \/ SelfAssign /\ UNCHANGED hist

SpecSelf == Init /\ [][NextSelf]_vars

\* ------------------------------------------------- the two implementations

\* succinct::vector<T> a; space<T> s; on one heap
InitBoth == InitWith(space_construct(construct_default(Empty, "a"), "s"), "a")

\* a.push_back(x); s.push_back(x);
BothPush(x) ==
  /\ outcome = "ok"
  /\ size(vec["a"]) < MaxSize
  /\ LET w == space_push_back(push_back(W0, "a", x), "s", x) IN
       /\ Commit(w, "push_back", "a", x)
       /\ ref' = IF Halted(w) THEN ref
                 ELSE [ref EXCEPT !["a"] = Append(@, x), !["s"] = Append(@, x)]

\* a.pop_back(); s.pop_back(); neither empty
BothPop ==
  /\ outcome = "ok"
  /\ size(vec["a"]) > 0
  /\ size(vec["s"]) > 0
  /\ LET w == space_pop_back(pop_back(W0, "a"), "s") IN
       /\ Commit(w, "pop_back", "a", 0)
       /\ ref' = IF Halted(w) THEN ref
                 ELSE [ref EXCEPT !["a"] = SubSeq(@, 1, Len(@) - 1),
                                  !["s"] = SubSeq(@, 1, Len(@) - 1)]

NextBoth ==
  \/ \E x \in Values :
       MayPush("a", x) /\ MayPush("s", x) /\ BothPush(x) /\ UNCHANGED hist
  \/ BothPop /\ UNCHANGED hist

SpecBoth == InitBoth /\ [][NextBoth]_vars

\* ------------------------------------------------------------- scaled runs

\* push_back on the counters of scaled width, while no assert has failed
ScaledPush ==
  /\ ~cnt.fail
  /\ cnt.n < MaxScaledSize
  /\ cnt' = scaled_push_back(cnt)
  /\ UNCHANGED <<vec, mem, ref, outcome, op, run, nops, ncopies, rt, last>>

\* pop_back on the counters of scaled width, the vector not empty
ScaledPop ==
  /\ ~cnt.fail
  /\ cnt.n > 0
  /\ cnt' = scaled_pop_back(cnt)
  /\ UNCHANGED <<vec, mem, ref, outcome, op, run, nops, ncopies, rt, last>>

NextScaled ==
  \/ ScaledPush
  \/ ScaledPop

SpecScaled == Init /\ [][NextScaled]_vars

\* ------------------------------------------------------------------ claims

A == vec["a"]

\* The program ended, and only because a caller broke a precondition:
\* pop_back on the empty vector, or operator[] past the end.
PreconditionFailure ==
  /\ outcome = "assert"
  /\ \/ op.name = "pop_back" /\ size(vec[op.obj]) = 0
     \/ op.name \in {"at", "set"} /\ op.arg >= size(vec[op.obj])

NoInternalFailure == outcome = "ok" \/ PreconditionFailure

\* C1.  Index fidelity: the vector is as long as the reference sequence that
\* received the same appends and end-removals, and for every i < size() the
\* access operator[](i) passes its checks and yields the reference's i-th item.
C1_IndexFidelity ==
  /\ size(A) = Len(ref["a"])
  /\ ~Halted(assert_valid(W0, "a"))
  /\ \A i \in 0..(size(A) - 1) :
       /\ pget_big(A, i) < A.dir_size
       /\ Valid(mem, pget_buf(mem, A, i), pget_little(A, i))
       /\ pget(mem, A, i) = ref["a"][i + 1]

\* A marked item is in the vector right after downsize_buffers split real buffers.
C1_Witness ==
  /\ outcome = "ok"
  /\ op.name = "pop_back"
  /\ op.rebuilds = <<"downsize_buffers">>
  /\ op.ncopy > 0
  /\ \E i \in 0..(size(A) - 1) : pget(mem, A, i) = 1

\* The structural invariants of assert_valid, over the fields of v.
Structural(v) ==
  /\ v.log_buffer_capacity >= 1
  /\ 1 <= v.dir_size
  /\ v.dir_size <= dir_capacity(v)
  /\ v.last_buffer_size < buffer_capacity(v)
  /\ (v.last_buffer_size = 0 => v.extra_buffer = FALSE)
  /\ (v.extra_buffer => v.last_buffer_size > 0 /\ v.dir_size < dir_capacity(v))
  /\ (v.dir_size + Ext(v)) * 4 >= dir_capacity(v)

\* C2.  The structural invariants hold after construction and on exit from
\* every push_back and pop_back, and no assert inside such a call fails.
C2_Structural == Structural(A) /\ NoInternalFailure

\* pop_back has just run downsize_buffers on a directory of several buffers.
C2_Witness ==
  /\ outcome = "ok"
  /\ op.name = "pop_back"
  /\ op.rebuilds = <<"downsize_buffers">>
  /\ A.dir_size >= 3

\* C3.  size() is 0 after construction, every push_back returns with size()
\* one larger and every pop_back on a non-empty vector with size() one smaller.
C3_SizeStep ==
  /\ [](op.name = "construct" => size(A) = 0)
  /\ [][/\ op'.name = "push_back" => outcome' = "ok" /\ size(A') = size(A) + 1
        /\ (op'.name = "pop_back" /\ size(A) > 0)
             => outcome' = "ok" /\ size(A') = size(A) - 1]_vars

\* push_back has just merged the buffers in pairs (upsize_buffers) at size 16.
C3_Witness ==
  /\ outcome = "ok"
  /\ op.name = "push_back"
  /\ op.rebuilds = <<"upsize_buffers">>
  /\ size(A) >= 16

\* The item slots of the live buffers at addresses 1..p.
RECURSIVE SlotsUpTo(_)
SlotsUpTo(p) ==
  IF p = 0 THEN 0
  ELSE SlotsUpTo(p - 1)
       + (IF mem[p].live /\ mem[p].kind = "buf" THEN Len(mem[p].cells) ELSE 0)

\* The item slots of all live buffers of the heap.
AllocatedSlots == SlotsUpTo(MaxAddr)

\* C4.  Space bound: the allocated item slots are those of dir_size buffers
\* plus the extra one, at most 2 * buffer_capacity - 1 of them are unused, and
\* buffer_capacity is at most 8 times the number of buffers.
C4_SpaceBound ==
  /\ AllocatedSlots = (A.dir_size + Ext(A)) * buffer_capacity(A)
  /\ AllocatedSlots - size(A) <= 2 * buffer_capacity(A) - 1
  /\ buffer_capacity(A) <= 8 * (A.dir_size + Ext(A))

\* An extra buffer is held while the buffers have 16 slots.
C4_Witness ==
  /\ outcome = "ok"
  /\ A.extra_buffer
  /\ buffer_capacity(A) = 16

\* C8.  A call that breaks a precondition (pop_back on the empty vector,
\* operator[] at i >= size()) ends in the assertion failure, with every field,
\* the directory and every buffer as before the call.
C8_RejectedUnchanged ==
  [][(\/ op'.name = "pop_back" /\ size(A) = 0
      \/ op'.name = "at" /\ op'.arg >= size(A))
       => outcome' = "assert" /\ vec' = vec /\ mem' = mem]_vars

\* pop_back has failed on a vector that had grown and was emptied again.
C8_Witness ==
  /\ outcome = "assert"
  /\ op.name = "pop_back"
  /\ size(A) = 0
  /\ A.log_buffer_capacity >= 2

\* C5.  No thrashing: from the third call of a strictly alternating run of
\* single push_back and pop_back calls on, no item buffer is allocated and none
\* is freed.
C5_NoThrashing == run >= 3 => op.nalloc = 0 /\ op.nfree = 0

\* The third or later call of an alternating run is a push_back that filled
\* the last buffer and went on into the extra buffer kept by the pop before.
C5_Witness ==
  /\ outcome = "ok"
  /\ run >= 3
  /\ op.name = "push_back"
  /\ A.last_buffer_size = 0
  /\ A.dir_size >= 2

\* C10.  Amortised cost: over the nops calls made so far, upsize_buffers and
\* downsize_buffers copied at most 2 * nops items.
C10_Amortised == ncopies <= 2 * nops

\* downsize_buffers has just split real buffers, after upsize_buffers had
\* merged 64 items.
C10_Witness ==
  /\ outcome = "ok"
  /\ op.rebuilds = <<"downsize_buffers">>
  /\ op.ncopy >= 16
  /\ ncopies >= 64 + 16

S == vec["s"]

\* C9.  space<T> keeps size and contents under mixed pushes and pops: size()
\* is the reference length, get(k) passes its checks and yields the reference
\* item for every k < size(), and no assert of valid(), push_back or pop_back
\* fails in a call that keeps the preconditions.
C9_SpaceFidelity ==
  /\ NoInternalFailure
  /\ size(S) = Len(ref["s"])
  /\ ~Halted(space_valid(W0, "s"))
  /\ \A k \in 0..(size(S) - 1) :
       /\ pget_big(S, k) < S.dir_size
       /\ Valid(mem, pget_buf(mem, S, k), pget_little(S, k))
       /\ space_get(mem, S, k) = ref["s"][k + 1]

\* A run of pops crossed several buffer boundaries, downsize_buffers split real
\* buffers, and popped items were pushed back.
C9_Witness ==
  /\ outcome = "ok"
  /\ op.name = "push_back"
  /\ buffer_capacity(S) = 8
  /\ ~S.big_buffer
  /\ size(S) > 16
  /\ size(S) < 32

\* The addresses object o owns: its directory and the buffers in it.
Owned(o) ==
  IF vec[o].dir \in Addr
  THEN {vec[o].dir} \cup {c \in {mem[vec[o].dir].cells[k] :
                                   k \in 1..Len(mem[vec[o].dir].cells)} : c \in Addr}
  ELSE {}

\* C6.  Copy independence.  Right after b(a) or o = t the copy has the size
\* and the items of the source and satisfies the structural invariants; the two
\* vectors never share a directory or a buffer; and a push_back, pop_back or
\* item write on one vector leaves the size and the items of the other as
\* they were.
C6_CopyIndependence ==
  /\ [](op.name \in {"copy", "assign"} =>
          /\ outcome = "ok"
          /\ size(vec[op.obj]) = size(vec[op.arg])
          /\ Items(mem, vec[op.obj]) = Items(mem, vec[op.arg])
          /\ Structural(vec[op.obj]))
  /\ [](Owned("a") \cap Owned("b") = {})
  /\ [][\A o \in {"a", "b"} :
          (op'.name \in {"push_back", "pop_back", "set"} /\ op'.obj # o)
            => /\ size(vec'[o]) = size(vec[o])
               /\ Items(mem', vec'[o]) = Items(mem, vec[o])]_vars

\* An assignment has just copied a vector that holds an extra buffer and a
\* marked item.
C6_Witness ==
  /\ outcome = "ok"
  /\ op.name = "assign"
  /\ vec[op.obj].extra_buffer
  /\ \E i \in 0..(size(vec[op.obj]) - 1) : pget(mem, vec[op.obj], i) = 1

\* C7.  Round trip: when the k items popped since the round trip began have
\* all been pushed back in their order, size() and the item at every index are
\* what they were when it began.
C7_RoundTrip ==
  rt.phase = "done" => size(A) = Len(rt.saved) /\ Items(mem, A) = rt.saved

\* A round trip from 64 items is over whose last push_back merged the buffers:
\* its pops had split them (downsize_buffers) on the way down.
C7_Witness ==
  /\ outcome = "ok"
  /\ rt.phase = "done"
  /\ Len(rt.saved) = 64
  /\ op.rebuilds = <<"upsize_buffers">>

\* The live item buffers and the live directories of the heap.
LiveBufs == {p \in Addr : mem[p].live /\ mem[p].kind = "buf"}

LiveDirs == {p \in Addr : mem[p].live /\ mem[p].kind = "dir"}

\* The directory slots that hold the buffers of v: 0..dir_size-1, and dir_size
\* iff extra_buffer.
OwnedSlots(v) == 0..(v.dir_size + Ext(v) - 1)

\* C11.  Exclusive ownership: while the vector exists the live buffers are
\* exactly dir[0..dir_size-1] plus dir[dir_size] iff extra_buffer, pairwise
\* distinct, and the one live directory is dir; no call frees twice or touches
\* freed memory; destruction frees each buffer once, then the directory, and
\* leaves nothing live.
C11_ExclusiveOwnership ==
  /\ [](outcome # "ub")
  /\ [](Built("a") =>
          /\ LiveDirs = {A.dir}
          /\ LiveBufs = {Load(mem, A.dir, i) : i \in OwnedSlots(A)}
          /\ Cardinality(LiveBufs) = A.dir_size + Ext(A))
  /\ [][op'.name = "destroy" =>
          /\ outcome' = "ok"
          /\ op'.nfree = A.dir_size + Ext(A)
          /\ \A p \in Addr : ~mem'[p].live]_vars

\* A vector of at least four buffers has been destroyed.
C11_Witness ==
  /\ outcome = "ok"
  /\ op.name = "destroy"
  /\ op.nfree >= 4

\* The preconditions of downsize_buffers in the state w of the call.
DownsizeBuffersPre(w, o) ==
  /\ w.vec[o].last_buffer_size = 0
  /\ ~w.vec[o].extra_buffer
  /\ w.vec[o].big_buffer
  /\ w.vec[o].dir_size * 2 < dir_capacity(w.vec[o])
  /\ ~Halted(downsize_buffers_asserts(w, o))

\* pop_back, called now, would call downsize_buffers in state w.
CallsDownsizeBuffers(w, o) == pop_trigger_fires(w, o) /\ w.vec[o].big_buffer

\* C12.  Whenever a pop_back on a non-empty vector finds its trigger true while
\* big_buffer is true, and so calls downsize_buffers, the preconditions of
\* downsize_buffers hold: stated in every state a pop_back can be called in,
\* for the call it would make.
C12_DownsizeBuffersPre ==
  (outcome = "ok" /\ size(A) > 0 /\ CallsDownsizeBuffers(pop_to_trigger(W0, "a"), "a"))
    => DownsizeBuffersPre(pop_to_trigger(W0, "a"), "a")

\* The next pop_back calls downsize_buffers on a directory of several buffers.
C12_Witness ==
  /\ outcome = "ok"
  /\ size(A) > 0
  /\ CallsDownsizeBuffers(pop_to_trigger(W0, "a"), "a")
  /\ pop_to_trigger(W0, "a").vec["a"].dir_size >= 2

\* push_back, called now, would call upsize_buffers in state w.
CallsUpsizeBuffers(w, o) == push_upsizes(w, o) /\ ~w.vec[o].big_buffer

\* What upsize_buffers finds in state w, and what it leaves in r.
UpsizeBuffersPrePost(w, r, o) ==
  /\ ~w.vec[o].big_buffer
  /\ ~w.vec[o].extra_buffer
  /\ w.vec[o].last_buffer_size = buffer_capacity(w.vec[o])
  /\ w.vec[o].dir_size = dir_capacity(w.vec[o])
  /\ w.vec[o].dir_size % 2 = 0
  /\ upsize_buffers_asserts(w, o) = w
  /\ ~Halted(r)
  /\ r.vec[o].dir_size * 2 = w.vec[o].dir_size
  /\ r.vec[o].last_buffer_size = 2 * w.vec[o].last_buffer_size
  /\ r.vec[o].log_buffer_capacity = w.vec[o].log_buffer_capacity + 1
  /\ r.vec[o].big_buffer

\* C13.  Whenever push_back calls upsize_buffers, big_buffer and extra_buffer
\* are false, the last buffer is exactly full, dir_size is dir_capacity and
\* even, the asserts (the assignment of line 331 included) change nothing, every
\* dir[i+1] read is an owned buffer, and afterwards dir_size is halved,
\* last_buffer_size doubled, log_buffer_capacity one larger and big_buffer true:
\* stated in every state a push_back can be called in, for the call it would make.
C13_UpsizeBuffersPre ==
  (outcome = "ok" /\ CallsUpsizeBuffers(push_to_branch(W0, "a", 0), "a"))
    => UpsizeBuffersPrePost(push_to_branch(W0, "a", 0),
                            upsize_buffers(push_to_branch(W0, "a", 0), "a"), "a")

\* The next push_back calls upsize_buffers on a directory of four buffers or more.
C13_Witness ==
  /\ outcome = "ok"
  /\ CallsUpsizeBuffers(push_to_branch(W0, "a", 0), "a")
  /\ A.dir_size >= 4

\* C14 as stated: of two consecutive rebuilds, one is a directory rebuild
\* (upsize_dir, downsize_dir) and the other a buffer rebuild (upsize_buffers,
\* downsize_buffers).
C14_StrictAlternation ==
  LET dirs == {"upsize_dir", "downsize_dir"} IN
  Len(last) = 2 => ((last[1] \in dirs) # (last[2] \in dirs))

\* C14, amended.  No call rebuilds twice.  Two consecutive rebuilds in the
\* same direction (two upsizes, or two downsizes) are one directory rebuild and
\* one buffer rebuild; a rebuild that reverses the direction of the previous
\* one is of the same kind as the previous one (upsize_dir then downsize_dir,
\* upsize_buffers then downsize_buffers, and the converse pairs).  The kind of
\* the next rebuild is fixed by big_buffer, which every rebuild negates.
C14_AlternationPerDirection ==
  LET dirs == {"upsize_dir", "downsize_dir"}
      ups == {"upsize_dir", "upsize_buffers"}
  IN /\ Len(op.rebuilds) <= 1
     /\ Len(last) = 2 =>
          (((last[1] \in ups) = (last[2] \in ups))
             <=> ((last[1] \in dirs) # (last[2] \in dirs)))
     /\ (last # <<>> /\ outcome = "ok") =>
          (A.big_buffer <=> last[Len(last)] \in {"upsize_buffers", "downsize_dir"})

\* A downsize_buffers that split real buffers has just followed an
\* upsize_buffers, with no rebuild between them.
C14_Witness ==
  /\ outcome = "ok"
  /\ op.rebuilds = <<"downsize_buffers">>
  /\ last = <<"upsize_buffers", "downsize_buffers">>
  /\ A.dir_size >= 3

\* C15.  Whenever a pop_back on a non-empty vector finds its trigger
\* (dir_size + (extra_buffer ? 1 : 0)) * 4 <= dir_capacity true after it updated
\* the counters, the two sides are equal, and the one call of downsize leaves a
\* state in which every invariant of assert_valid holds, so that the pop_back
\* returns: stated in every state a pop_back can be called in, for the call it
\* would make.
C15_TriggerEquality ==
  (outcome = "ok" /\ size(A) > 0 /\ pop_trigger_fires(pop_to_trigger(W0, "a"), "a"))
    => /\ (pop_to_trigger(W0, "a").vec["a"].dir_size
            + Ext(pop_to_trigger(W0, "a").vec["a"])) * 4
           = dir_capacity(pop_to_trigger(W0, "a").vec["a"])
       /\ ~Halted(assert_valid(downsize(pop_to_trigger(W0, "a"), "a"), "a"))
       /\ ~Halted(pop_back(W0, "a"))

\* The next pop_back finds its trigger true with a directory of eight slots
\* or more and calls downsize_dir.
C15_Witness ==
  /\ outcome = "ok"
  /\ size(A) > 0
  /\ pop_trigger_fires(pop_to_trigger(W0, "a"), "a")
  /\ ~A.big_buffer
  /\ dir_capacity(A) >= 8

\* C16.  Every rebuild keeps the contents and flips the regime.  When
\* push_back calls upsize, upsize runs upsize_dir if big_buffer is true and
\* upsize_buffers otherwise, and afterwards dir_size < dir_capacity; when
\* pop_back calls downsize, downsize runs downsize_buffers if big_buffer is true
\* and downsize_dir otherwise.  The rebuild ends without a failed assert and
\* without touching invalid memory, runs that one step only, leaves size() and
\* the item at every index as they were, and negates big_buffer.  Stated in
\* every state a push_back or pop_back can be called in, for the rebuild the
\* call would run.
C16_RebuildPreserves ==
  LET Preserves(w, r, name) ==
        /\ ~Halted(r)
        /\ r.rebuilds = <<name>>
        /\ size(r.vec["a"]) = size(w.vec["a"])
        /\ Items(r.mem, r.vec["a"]) = Items(w.mem, w.vec["a"])
        /\ r.vec["a"].big_buffer = ~w.vec["a"].big_buffer
  IN outcome = "ok" =>
       /\ \A x \in Values :
            (MayPush("a", x) /\ push_upsizes(push_to_branch(W0, "a", x), "a")) =>
              /\ Preserves(push_to_branch(W0, "a", x),
                           upsize(push_to_branch(W0, "a", x), "a"),
                           IF A.big_buffer THEN "upsize_dir" ELSE "upsize_buffers")
              /\ Items(push_to_branch(W0, "a", x).mem,
                       push_to_branch(W0, "a", x).vec["a"]) = Append(ref["a"], x)
              /\ upsize(push_to_branch(W0, "a", x), "a").vec["a"].dir_size
                   < dir_capacity(upsize(push_to_branch(W0, "a", x), "a").vec["a"])
       /\ (size(A) > 0 /\ pop_trigger_fires(pop_to_trigger(W0, "a"), "a")) =>
            /\ Preserves(pop_to_trigger(W0, "a"),
                         downsize(pop_to_trigger(W0, "a"), "a"),
                         IF A.big_buffer THEN "downsize_buffers" ELSE "downsize_dir")
            /\ Items(pop_to_trigger(W0, "a").mem, pop_to_trigger(W0, "a").vec["a"])
                 = SubSeq(ref["a"], 1, Len(ref["a"]) - 1)

\* The next push_back merges the buffers of a vector that holds a marked item.
C16_Witness ==
  /\ outcome = "ok"
  /\ push_upsizes(push_to_branch(W0, "a", 0), "a")
  /\ ~A.big_buffer
  /\ A.dir_size >= 4
  /\ \E i \in 0..(size(A) - 1) : pget(mem, A, i) = 1

\* C17 as stated, on counters of scaled width: in no call of push_back or
\* pop_back does a computation on length_t or on the bit-field
\* log_buffer_capacity yield a value that does not fit its type, whatever the
\* size below 2^(2 * ScaledLenBits), and the two capacities fit length_t.
C17_HalfWidthSuffices ==
  /\ cnt.wraps = {}
  /\ scaled_buffer_capacity(cnt) < LenMod

\* The counters have gone through several upsizes and downsizes without a
\* wrap: the buffers hold 32 items or more and a pop_back is next.
C17_Witness ==
  /\ ~cnt.fail
  /\ cnt.wraps = {}
  /\ cnt.log_buffer_capacity >= 5
  /\ cnt.extra_buffer

\* C18.  Every pop_back that runs downsize_dir calls it with extra_buffer
\* false and dir_size <= dir_capacity / 2, and returns with the halved directory
\* holding all the buffers: it has room for dir_size handles, its first dir_size
\* slots are the live buffers, each once, and there is still no extra buffer.
C18_DownsizeDirNoExtra ==
  [][(op'.name = "pop_back" /\ op'.rebuilds = <<"downsize_dir">>) =>
       /\ ~pop_to_trigger(W0, "a").vec["a"].extra_buffer
       /\ pop_to_trigger(W0, "a").vec["a"].dir_size * 2
            <= dir_capacity(pop_to_trigger(W0, "a").vec["a"])
       /\ outcome' = "ok"
       /\ ~vec'["a"].extra_buffer
       /\ vec'["a"].dir_size <= Len(mem'[vec'["a"].dir].cells)
       /\ {p \in Addr : mem'[p].live /\ mem'[p].kind = "buf"}
            = {Load(mem', vec'["a"].dir, i) : i \in 0..(vec'["a"].dir_size - 1)}
       /\ Cardinality({p \in Addr : mem'[p].live /\ mem'[p].kind = "buf"})
            = vec'["a"].dir_size]_vars

\* A pop_back has just run downsize_dir on a directory of two buffers or more.
C18_Witness ==
  /\ outcome = "ok"
  /\ op.name = "pop_back"
  /\ op.rebuilds = <<"downsize_dir">>
  /\ A.dir_size >= 2

\* C19.  dir_capacity() is the number of slots of the directory on the heap:
\* 1 after construction, and after every push_back and pop_back twice the
\* length before if the call ran upsize_dir, half of it if it ran downsize_dir,
\* and the same length otherwise (upsize_buffers and downsize_buffers
\* included).  No call of push_back, pop_back or operator[] that keeps its
\* precondition accesses a directory slot outside the directory.
C19_DirCapacityAllocated ==
  /\ Len(mem[A.dir].cells) = 1
  /\ [](outcome # "ub")
  /\ [](mem[A.dir].live /\ mem[A.dir].kind = "dir"
         /\ dir_capacity(A) = Len(mem[A.dir].cells))
  /\ [][(outcome' = "ok" /\ op'.name \in {"push_back", "pop_back"}) =>
          Len(mem'[vec'["a"].dir].cells) =
            IF op'.rebuilds = <<"upsize_dir">> THEN 2 * Len(mem[A.dir].cells)
            ELSE IF op'.rebuilds = <<"downsize_dir">> THEN Len(mem[A.dir].cells) \div 2
            ELSE Len(mem[A.dir].cells)]_vars

\* downsize_buffers has just split real buffers under a directory of eight slots.
C19_Witness ==
  /\ outcome = "ok"
  /\ op.rebuilds = <<"downsize_buffers">>
  /\ op.ncopy > 0
  /\ Len(mem[A.dir].cells) = 8
  /\ dir_capacity(A) = 8

\* C20 as stated: a = a ends without touching freed memory and leaves
\* size() and the item at every index as they were.
C20_SelfAssignHarmless ==
  [][op'.name = "self_assign" =>
       /\ outcome' = "ok"
       /\ size(vec'["a"]) = size(A)
       /\ Items(mem', vec'["a"]) = Items(mem, A)]_vars

\* a = a has run on a vector of several buffers and returned.
C20_Witness ==
  /\ outcome = "ok"
  /\ op.name = "self_assign"
  /\ op.nfree >= 2
  /\ size(A) >= 3

\* C21.  After the same pushes and pops (pops only when non-empty) from the
\* empty state, succinct::vector and space report the same size() and, for
\* every index below it, operator[] and get pass their checks and yield the
\* same item; every call of either implementation returns.
C21_Equivalent ==
  /\ outcome = "ok"
  /\ size(A) = size(S)
  /\ ~Halted(assert_valid(W0, "a"))
  /\ ~Halted(space_valid(W0, "s"))
  /\ \A i \in 0..(size(A) - 1) :
       /\ pget_big(A, i) < A.dir_size
       /\ Valid(mem, pget_buf(mem, A, i), pget_little(A, i))
       /\ pget_big(S, i) < S.dir_size
       /\ Valid(mem, pget_buf(mem, S, i), pget_little(S, i))
       /\ pget(mem, A, i) = space_get(mem, S, i)
       /\ pget(mem, A, i) = ref["a"][i + 1]

\* The internal shapes have diverged: after the same calls the two hold the
\* same six items or more, one of them a marked item, behind directories of
\* different capacities (vector has shrunk its directory, space has not).
C21_Witness ==
  /\ outcome = "ok"
  /\ size(A) >= 6
  /\ size(A) = size(S)
  /\ A.big_buffer # S.big_buffer
  /\ \E i \in 0..(size(A) - 1) : pget(mem, A, i) = 1 /\ space_get(mem, S, i) = 1

====
